---- MODULE Spec2Model ----
(***************************************************************************)
(* A model of heated_rivarly_tracker.py: the fetch-with-backoff loop       *)
(* (request_json), the title classifier's rendering of episode codes, the  *)
(* selectors, the append-only comment history and the series aggregation   *)
(* of make_plots, and main() which ties them into one run.                 *)
(*                                                                         *)
(* Text is modelled as a sequence of one-character strings, so that the    *)
(* code's tests on text (isdigit, lower, "json" in ct, string comparison)  *)
(* are computed and not assumed.  None is a value that is no text.         *)
(***************************************************************************)
EXTENDS Integers, Sequences, FiniteSets, TLC

VARIABLES
    max_retries,    \* request_json: the max_retries parameter
    attempt,        \* request_json: the loop variable of line 118
    responses,      \* the responses session.get has returned to this call, in order
    sleeps,         \* the arguments of the time.sleep calls of this call, in order
    outcome,        \* how this call of request_json ended, or "pending"
    returned,       \* the value request_json returned (NoValue when it did not return)
    pc,             \* where the program is: "idle", or the step it is in
    runs,           \* the number of runs of main() started so far
    snapshot,       \* main: the snapshot time stamp of the current run
    exit,           \* how the last run of main() ended: "none", "ok" or "failed"
    posts,          \* the list of Post of the current run
    eps,            \* episode_posts(posts), the rows of EPISODE_POSTS_CSV
    trailer,        \* pick_trailer(posts): no post, or one
    others,         \* pick_other_posts(posts, n)
    history_file,   \* COMMENT_HISTORY_CSV
    history_before, \* COMMENT_HISTORY_CSV as it was when the current run started
    appended,       \* the batches of rows the runs have appended, in run order
    by_post,        \* make_plots: the series, sorted
    episode_plot,   \* the lines drawn in EPISODE_PLOT_PNG
    non_episode_plot \* the lines drawn in NON_EPISODE_PLOT_PNG

fetchVars == <<max_retries, attempt, responses, sleeps, outcome, returned>>
selectVars == <<posts, eps, trailer, others>>
historyVars == <<history_file, history_before, appended>>
plotVars == <<by_post, episode_plot, non_episode_plot>>
runVars == <<pc, runs, snapshot, exit>>

vars == <<fetchVars, selectVars, historyVars, plotVars, runVars>>

----------------------------------------------------------------------------
(* Bounds of the model *)

MaxAttempts == 5        \* largest max_retries a call is started with
MaxRuns == 2            \* runs of main() in a behaviour
MaxTime == 3            \* the clock reads 1..MaxTime
MaxRows == 3            \* rows of a history file given to make_plots
MaxPosts == 3           \* posts given to the selectors
MaxOtherN == 2          \* largest n given to pick_other_posts
MaxDigit == 2           \* digits 0..MaxDigit in the season and episode numbers of titles

----------------------------------------------------------------------------
(* Text *)

None == <<"None">>

DigitChars == <<"0", "1", "2", "3", "4", "5", "6", "7", "8", "9">>

UpperChars == <<"A", "B", "C", "D", "E", "F", "G", "H", "I", "J", "K", "L", "M",
                "N", "O", "P", "Q", "R", "S", "T", "U", "V", "W", "X", "Y", "Z">>

LowerChars == <<"a", "b", "c", "d", "e", "f", "g", "h", "i", "j", "k", "l", "m",
                "n", "o", "p", "q", "r", "s", "t", "u", "v", "w", "x", "y", "z">>

Range(s) == {s[i] : i \in 1..Len(s)}

IndexIn(c, chars) == CHOOSE i \in 1..Len(chars) : chars[i] = c

\* bool(x) of an Optional[str]: None and the empty string are false
Truthy(s) == s # None /\ s # <<>>

\* The character U+00B2, superscript two (byte B2 of a header, which arrives decoded
\* as Latin-1), written as a token: a digit to str.isdigit, no digit to int
SUPERSCRIPT_TWO == "^2"

\* str.isdigit
isdigit(s) ==
    Len(s) > 0 /\ \A i \in 1..Len(s) : s[i] \in Range(DigitChars) \cup {SUPERSCRIPT_TWO}

\* whether int(s) returns, for s without sign and spaces: on decimal digits only;
\* on any other text it raises ValueError
IntReturns(s) == Len(s) > 0 /\ \A i \in 1..Len(s) : s[i] \in Range(DigitChars)

\* int(s) of a string of decimal digits
RECURSIVE int(_)
int(s) ==
    IF s = <<>> THEN 0
    ELSE 10 * int(SubSeq(s, 1, Len(s) - 1)) + (IndexIn(s[Len(s)], DigitChars) - 1)

\* str.lower
lower(s) ==
    [i \in 1..Len(s) |->
        IF s[i] \in Range(UpperChars) THEN LowerChars[IndexIn(s[i], UpperChars)] ELSE s[i]]

\* sub in s
Contains(sub, s) ==
    \E i \in 1..(Len(s) - Len(sub) + 1) : SubSeq(s, i, i + Len(sub) - 1) = sub

RECURSIVE Pow2(_)
Pow2(n) == IF n = 0 THEN 1 ELSE 2 * Pow2(n - 1)

Min(a, b) == IF a < b THEN a ELSE b

----------------------------------------------------------------------------
(* Episode parsing: EP_PATTERNS, extract_episode_code, is_official_trailer *)

\* \w, \s and \d of the regular expressions, on the characters the titles use
IsWord(c) == c \in Range(DigitChars) \cup Range(UpperChars) \cup Range(LowerChars) \cup {"_"}
IsSpace(c) == c = " "
IsDigitChar(c) == c \in Range(DigitChars)

\* \b at position p: between s[p-1] and s[p], or at either end of s
Boundary(s, p) ==
    (p > 1 /\ p - 1 <= Len(s) /\ IsWord(s[p - 1])) # (p >= 1 /\ p <= Len(s) /\ IsWord(s[p]))

\* the digits a group (\d{1,2}) takes at position p: two when it can, else one, else none
DigitRun(s, p) ==
    IF p + 1 <= Len(s) /\ IsDigitChar(s[p]) /\ IsDigitChar(s[p + 1]) THEN 2
    ELSE IF p <= Len(s) /\ IsDigitChar(s[p]) THEN 1
    ELSE 0

\* \s* at position p: the position of the first character from p on that is no space
RECURSIVE SkipSpaces(_, _)
SkipSpaces(s, p) == IF p <= Len(s) /\ IsSpace(s[p]) THEN SkipSpaces(s, p + 1) ELSE p

\* A match of a pattern  \b LEAD (\d{1,2}) \s* SEP GAP (\d{1,2}) \b  that starts at i,
\* as <<g1, g2>>, or None.  lead is the set of characters of LEAD (empty: no LEAD),
\* sep the set of characters of SEP, gap tells whether \s* follows SEP.  A group
\* that could take two digits and took one would be followed by a digit, where the
\* pattern wants a space, SEP or \b: so no shorter group matches where the longer fails.
MatchAt(s, i, lead, sep, gap) ==
    LET d1 == IF lead = {} THEN i ELSE i + 1
        n1 == DigitRun(s, d1)
        x  == SkipSpaces(s, d1 + n1)
        d2 == IF gap THEN SkipSpaces(s, x + 1) ELSE x + 1
        n2 == DigitRun(s, d2)
    IN  IF /\ Boundary(s, i)
           /\ (lead # {} => i <= Len(s) /\ s[i] \in lead)
           /\ n1 > 0
           /\ x <= Len(s) /\ s[x] \in sep
           /\ n2 > 0
           /\ Boundary(s, d2 + n2)
        THEN <<SubSeq(s, d1, d1 + n1 - 1), SubSeq(s, d2, d2 + n2 - 1)>>
        ELSE None

\* pat.search(title): the leftmost match
Search(s, lead, sep, gap) ==
    LET starts == {i \in 1..Len(s) : MatchAt(s, i, lead, sep, gap) # None}
    IN  IF starts = {} THEN None
        ELSE MatchAt(s, CHOOSE i \in starts : \A j \in starts : i <= j, lead, sep, gap)

\* EP_PATTERNS[0]: \b(\d{1,2})\s*[xX]\s*(\d{1,2})\b
SearchX(title) == Search(title, {}, {"x", "X"}, TRUE)
\* EP_PATTERNS[1]: \b[Ss](\d{1,2})\s*[Ee](\d{1,2})\b
SearchSE(title) == Search(title, {"S", "s"}, {"E", "e"}, FALSE)

\* str(n) for n >= 0
RECURSIVE str(_)
str(n) == IF n < 10 THEN <<DigitChars[n + 1]>> ELSE str(n \div 10) \o <<DigitChars[(n % 10) + 1]>>

\* f"{ep:02d}"
Format02d(n) == IF n < 10 THEN <<"0">> \o str(n) ELSE str(n)

\* f"{season}x{ep:02d}"
RenderCode(season, ep) == str(season) \o <<"x">> \o Format02d(ep)

extract_episode_code(title) ==
    LET m == IF SearchX(title) # None THEN SearchX(title) ELSE SearchSE(title)
    IN  IF m # None THEN RenderCode(int(m[1]), int(m[2])) ELSE None

is_official_trailer(title) ==
    LET t == lower(title)
    IN  /\ Contains(<<"t","r","a","i","l","e","r">>, t)
        /\ Contains(<<"o","f","f","i","c","i","a","l">>, t)
        /\ Contains(<<"h","e","a","t","e","d"," ","r","i","v","a","l","r","y">>, t)

----------------------------------------------------------------------------
(* Ordering and sorting *)

\* ord(c) on the characters that episode codes are made of
Ord(c) ==
    IF c \in Range(DigitChars) THEN 47 + IndexIn(c, DigitChars)
    ELSE IF c \in Range(UpperChars) THEN 64 + IndexIn(c, UpperChars)
    ELSE IF c \in Range(LowerChars) THEN 96 + IndexIn(c, LowerChars)
    ELSE 32

\* a < b on str: the first differing character decides, a proper prefix is smaller
StrLess(a, b) ==
    \E k \in 1..(Len(b)) :
        /\ k <= Len(a) + 1
        /\ \A i \in 1..(k - 1) : a[i] = b[i]
        /\ (k = Len(a) + 1 \/ Ord(a[k]) < Ord(b[k]))

\* sorted(s, key=...) and list.sort(key=...): the stable sort, where less[i][j] says
\* that the key of s[i] is smaller than the key of s[j] (for reverse=True: greater;
\* Python keeps elements with equal keys in their original order in both directions)
StableSort(s, less) ==
    LET rank(i) ==
            1 + Cardinality({j \in 1..Len(s) :
                                \/ less[j][i]
                                \/ (~less[i][j] /\ j < i)})
    IN  [k \in 1..Len(s) |-> s[CHOOSE i \in 1..Len(s) : rank(i) = k]]

----------------------------------------------------------------------------
(* Post, fetch_search_posts: from the JSON body to the list of Post *)

\* Lines 171-197.  A child of the body is the record d, with "" for an id or a name
\* that is missing; the fields that neither the selection nor the history reads (url,
\* author, created_iso) are left out.
PostOf(d) ==
    [id           |-> d.id,
     name         |-> IF d.name # "" THEN d.name ELSE "t3_" \o d.id,
     created_utc  |-> d.created_utc,
     title        |-> d.title,
     permalink    |-> "https://www.reddit.com" \o d.permalink,
     score        |-> d.score,
     num_comments |-> d.num_comments,
     episode_code |-> extract_episode_code(d.title),
     is_trailer   |-> is_official_trailer(d.title)]

\* lines 168-200: children without an id are skipped
HasId(d) == d.id # ""
PostsOf(children) ==
    LET kept == SelectSeq(children, HasId)
    IN  [i \in 1..Len(kept) |-> PostOf(kept[i])]

----------------------------------------------------------------------------
(* Selection logic *)

IsTrailer(p) == p.is_trailer
HasEpisode(p) == Truthy(p.episode_code)
\* IsOther with the trailers let through
IsOther_TrailersKept(p) == ~HasEpisode(p)

\* line 254
IsOther(p) == ~HasEpisode(p) /\ ~p.is_trailer

MoreComments(a, b) == a.num_comments > b.num_comments

\* pick_trailer taking, of the trailers with the most comments, the last of the list
pick_trailer_LastOfTies(ps) ==
    LET trailers == SelectSeq(ps, IsTrailer)
        rev == [i \in 1..Len(trailers) |-> trailers[Len(trailers) + 1 - i]]
        more == [i \in 1..Len(rev) |-> [j \in 1..Len(rev) |-> MoreComments(rev[i], rev[j])]]
    IN  IF trailers = <<>> THEN <<>> ELSE <<StableSort(rev, more)[1]>>

\* An Optional[Post] is the sequence of no post (None) or of one post
pick_trailer(ps) ==
    LET trailers == SelectSeq(ps, IsTrailer)
        more == [i \in 1..Len(trailers) |-> [j \in 1..Len(trailers) |->
                    MoreComments(trailers[i], trailers[j])]]
    IN  IF trailers = <<>> THEN <<>> ELSE <<StableSort(trailers, more)[1]>>

\* (a.num_comments, a.score) > (b.num_comments, b.score)
MoreCommentsThenScore(a, b) ==
    \/ a.num_comments > b.num_comments
    \/ (a.num_comments = b.num_comments /\ a.score > b.score)

\* s[:n]
Slice(s, n) ==
    IF n >= 0 THEN SubSeq(s, 1, Min(n, Len(s)))
    ELSE SubSeq(s, 1, IF Len(s) + n > 0 THEN Len(s) + n ELSE 0)

OtherCandidates(ps) == SelectSeq(ps, IsOther)

pick_other_posts(ps, n) ==
    LET candidates == OtherCandidates(ps)
        more == [i \in 1..Len(candidates) |-> [j \in 1..Len(candidates) |->
                    MoreCommentsThenScore(candidates[i], candidates[j])]]
    IN  Slice(StableSort(candidates, more), n)

\* (a.episode_code, a.created_utc) < (b.episode_code, b.created_utc)
EpisodeKeyLess(a, b) ==
    \/ StrLess(a.episode_code, b.episode_code)
    \/ (a.episode_code = b.episode_code /\ a.created_utc < b.created_utc)

episode_posts(ps) ==
    LET found == SelectSeq(ps, HasEpisode)
        less == [i \in 1..Len(found) |-> [j \in 1..Len(found) |->
                    EpisodeKeyLess(found[i], found[j])]]
    IN  StableSort(found, less)

----------------------------------------------------------------------------
(* Time stamps: utc_now_iso and parse_dt *)

\* The clock counts seconds; the ISO text of an instant is its digits and the offset.
UTC_OFFSET == <<"+","0","0",":","0","0">>

\* datetime.now(timezone.utc).isoformat()
isoformat(t) == str(t) \o UTC_OFFSET

\* what parse_dt returns where datetime.fromisoformat raises: its None, as a number
\* that is no instant
NoTime == -1

\* parse_dt: datetime.fromisoformat(s), or None where it raises
parse_dt(s) ==
    LET n == Len(s) - Len(UTC_OFFSET)
    IN  IF n >= 1 /\ SubSeq(s, n + 1, Len(s)) = UTC_OFFSET /\ IntReturns(SubSeq(s, 1, n))
        THEN int(SubSeq(s, 1, n))
        ELSE NoTime

\* safe_int(x, 0) on the text of a cell
safe_int(s) ==
    IF IntReturns(s) THEN int(s)
    ELSE IF Len(s) > 1 /\ s[1] \in {"+", "-"} /\ IntReturns(Tail(s))
         THEN (IF s[1] = "-" THEN 0 - int(Tail(s)) ELSE int(Tail(s)))
    ELSE 0

----------------------------------------------------------------------------
(* The comment history: ensure_history_header, append_history *)

\* A file is [exists, lines]; a line of the history is the header or a row of cells,
\* each cell the text csv.DictWriter writes for the value it is given.
NoFile == [exists |-> FALSE, lines |-> <<>>]

HISTORY_HEADER ==
    <<"snapshot_utc", "post_id", "post_name", "episode_code", "is_episode",
      "is_trailer", "title", "permalink", "num_comments">>

\* ensure_history_header without the test of line 213: the open(path, "w") truncates
ensure_history_header_Truncating(file) == [exists |-> TRUE, lines |-> <<HISTORY_HEADER>>]

ensure_history_header(file) ==
    IF file.exists THEN file ELSE [exists |-> TRUE, lines |-> <<HISTORY_HEADER>>]

\* lines 230-240: the row written for one post
HistoryRow(snapshot_utc, p) ==
    [snapshot_utc |-> snapshot_utc,
     post_id      |-> p.id,
     post_name    |-> p.name,
     episode_code |-> IF Truthy(p.episode_code) THEN p.episode_code ELSE <<>>,
     is_episode   |-> str(IF Truthy(p.episode_code) THEN 1 ELSE 0),
     is_trailer   |-> str(IF p.is_trailer THEN 1 ELSE 0),
     title        |-> p.title,
     permalink    |-> p.permalink,
     num_comments |-> str(p.num_comments)]

HistoryRows(snapshot_utc, ps) ==
    [i \in 1..Len(ps) |-> HistoryRow(snapshot_utc, ps[i])]

append_history(file, snapshot_utc, ps) ==
    LET f == ensure_history_header(file)
    IN  [exists |-> TRUE, lines |-> f.lines \o HistoryRows(snapshot_utc, ps)]

----------------------------------------------------------------------------
(* make_plots: the series of each post and the two plots *)

\* csv.DictReader: the first line names the columns, every other line is a row
ReadRows(file) == IF file.lines = <<>> THEN <<>> ELSE Tail(file.lines)

\* lines 291-297: by_post, a dict, as the sequence of its items in insertion order;
\* an entry of a series is <<dt, num_comments, row>>
RECURSIVE GroupByPost(_, _)
GroupByPost(rows, groups) ==
    IF rows = <<>> THEN groups
    ELSE
        LET row == Head(rows)
            dt  == parse_dt(row.snapshot_utc)
            e   == <<dt, safe_int(row.num_comments), row>>
            at  == {i \in 1..Len(groups) : groups[i].post_name = row.post_name}
        IN  IF dt = NoTime THEN GroupByPost(Tail(rows), groups)
            ELSE IF at = {}
                 THEN GroupByPost(Tail(rows),
                        Append(groups, [post_name |-> row.post_name, series |-> <<e>>]))
            ELSE GroupByPost(Tail(rows),
                        [i \in 1..Len(groups) |->
                            IF i \in at
                            THEN [groups[i] EXCEPT !.series = Append(@, e)]
                            ELSE groups[i]])

EarlierEntry(a, b) == a[1] < b[1]

\* SortSeries with the series left in file order
SortSeries_FileOrder(groups) == groups

\* lines 300-301
SortSeries(groups) ==
    [k \in 1..Len(groups) |->
        LET series == groups[k].series
            less == [i \in 1..Len(series) |-> [j \in 1..Len(series) |->
                        EarlierEntry(series[i], series[j])]]
        IN  [groups[k] EXCEPT !.series = StableSort(series, less)]]

BuildSeries(file) == SortSeries(GroupByPost(ReadRows(file), <<>>))

\* DecidingRow taking the last entry of the series
DecidingRow_Last(series) == series[Len(series)][3]

\* lines 308 and 334: the row that decides which plot a series is drawn in
DecidingRow(series) == series[1][3]

IsEpisodeSeries(item) == DecidingRow(item.series).is_episode = <<"1">>
IsNonEpisodeSeries(item) == ~IsEpisodeSeries(item)

\* the lines of the two plots: for each series its post, its x and its y values
PlotLine(item) ==
    [post_name |-> item.post_name,
     x |-> [i \in 1..Len(item.series) |-> item.series[i][1]],
     y |-> [i \in 1..Len(item.series) |-> item.series[i][2]]]

PlotLines(items) == [i \in 1..Len(items) |-> PlotLine(items[i])]

EpisodePlot(groups) == PlotLines(SelectSeq(groups, IsEpisodeSeries))
NonEpisodePlot(groups) == PlotLines(SelectSeq(groups, IsNonEpisodeSeries))

----------------------------------------------------------------------------
(* The endpoint: what session.get can hand back *)

JSON_CT  == <<"a","p","p","l","i","c","a","t","i","o","n","/","j","s","o","n">>
JSON_CT2 == <<"A","p","p","l","i","c","a","t","i","o","n","/","J","S","O","N",";"," ","c","h","a","r","s","e","t","=","u","t","f","-","8">>
HTML_CT  == <<"t","e","x","t","/","h","t","m","l">>

TITLE_EPISODE == <<"E","p","i","s","o","d","e"," ","1","x","0","2"," ","t","a","l","k">>
TITLE_TRAILER == <<"H","e","a","t","e","d"," ","R","i","v","a","l","r","y"," ","O","f","f","i","c","i","a","l"," ","T","r","a","i","l","e","r">>
TITLE_BOTH    == <<"h","e","a","t","e","d"," ","r","i","v","a","l","r","y"," ","o","f","f","i","c","i","a","l"," ","T","R","A","I","L","E","R"," ","S","1","E","3">>
TITLE_NEWS    == <<"n","e","w","s">>

\* a child of the JSON body: the "data" of one search result
Child(id, name, title, created_utc, num_comments, score) ==
    [id |-> id, name |-> name, title |-> title, permalink |-> "/r/television/" \o id,
     created_utc |-> created_utc, num_comments |-> num_comments, score |-> score]

\* A body is JSON text with its list of children, or text that is not JSON, on
\* which r.json() raises
Json(children) == [json |-> TRUE, children |-> children]
Malformed == [json |-> FALSE, children |-> <<>>]

\* what the variable returned holds while request_json has returned nothing
NoValue == Malformed

Bodies ==
    {Json(<<>>),
     Json(<<Child("abc", "t3_abc", TITLE_EPISODE, 1, 5, 1)>>),
     Json(<<Child("def", "", TITLE_TRAILER, 2, 7, 0),
            Child("", "t3_zzz", TITLE_NEWS, 3, 9, 9),
            Child("abc", "t3_abc", TITLE_EPISODE, 1, 6, 1)>>)}

Response(st, ra, ct, b) ==
    [status_code |-> st, retry_after |-> ra, content_type |-> ct, body |-> b]

\* Rate-limited responses, with the Retry-After header absent, numeric, not numeric,
\* and of a digit that is not decimal
Responses429 ==
    {Response(429, ra, None, Malformed) :
        ra \in {None, <<"0">>, <<"1","2">>, <<"1",".","5">>, <<SUPERSCRIPT_TWO>>}}

\* Server errors (a Retry-After header on them is not read)
Responses5xx ==
    {Response(500, None, None, Malformed), Response(599, <<"7">>, None, Malformed)}

\* Every other response: 2xx, and the 1xx, 3xx and 4xx that reach the caller
\* (allow_redirects=True follows the redirects that name a Location; a 300 or a 304
\* is handed to the caller as it is)
ResponsesOther ==
    {Response(200, None, ct, b) : ct \in {JSON_CT, JSON_CT2}, b \in Bodies \cup {Malformed}}
    \cup {Response(200, None, ct, Malformed) : ct \in {HTML_CT, None}}
    \cup {Response(st, None, ct, Json(<<>>)) : st \in {204, 300}, ct \in {JSON_CT, HTML_CT}}
    \cup {Response(st, None, HTML_CT, Malformed) : st \in {101, 404, 499}}

Responses == Responses429 \cup Responses5xx \cup ResponsesOther

\* The responses the runs of main() are checked with
RunResponses ==
    {Response(429, None, None, Malformed)}
    \cup {Response(200, None, JSON_CT, b) : b \in Bodies \cup {Malformed}}
    \cup {Response(200, None, HTML_CT, Malformed), Response(404, None, HTML_CT, Malformed)}

----------------------------------------------------------------------------
(* request_json *)

\* line 116: max_retries: int = 5
DEFAULT_MAX_RETRIES == 5

\* line 133.  requests' Response.raise_for_status raises HTTPError for 4xx and 5xx only
raise_for_status(r) == 400 <= r.status_code /\ r.status_code < 600

Backoff(att) == Min(60, Pow2(att))

\* line 122: whether int(retry_after) is evaluated and raises
RetryAfterRaises(r) ==
    Truthy(r.retry_after) /\ isdigit(r.retry_after) /\ ~IntReturns(r.retry_after)

\* line 122: the seconds to wait after a 429
Wait429(r, att) ==
    IF Truthy(r.retry_after) /\ isdigit(r.retry_after)
    THEN int(r.retry_after)
    ELSE Backoff(att)

\* line 128: the seconds to wait after a 5xx
Wait5xx(att) == Backoff(att)

Is429(r) == r.status_code = 429
Is5xx(r) == 500 <= r.status_code /\ r.status_code < 600

\* line 135
DeclaredContentType(r) == lower(IF Truthy(r.content_type) THEN r.content_type ELSE <<>>)

\* line 136
IndicatesJson(ct) == Contains(<<"j","s","o","n">>, ct)

\* Settle with the content type never looked at
Settle_NoContentTypeCheck(r) ==
    IF raise_for_status(r) THEN "HTTPError"
    ELSE IF ~r.body.json THEN "JSONDecodeError"
    ELSE "returned"

\* lines 133-139: what an attempt that is not retried ends in
Settle(r) ==
    IF raise_for_status(r) THEN "HTTPError"
    ELSE IF ~IndicatesJson(DeclaredContentType(r)) THEN "ValueError: Expected JSON"
    ELSE IF ~r.body.json THEN "JSONDecodeError"
    ELSE "returned"

\* lines 118-139: one iteration of the loop, in which session.get returns r
Attempt(r) ==
    /\ outcome = "pending"
    /\ attempt <= max_retries
    /\ responses' = Append(responses, r)
    /\ IF Is429(r) /\ RetryAfterRaises(r) THEN
            /\ outcome' = "ValueError: invalid literal for int()"
            /\ UNCHANGED <<sleeps, attempt, returned>>
       ELSE IF Is429(r) THEN
            /\ sleeps' = Append(sleeps, Wait429(r, attempt))
            /\ attempt' = attempt + 1
            /\ UNCHANGED <<outcome, returned>>
       ELSE IF Is5xx(r) THEN
            /\ sleeps' = Append(sleeps, Wait5xx(attempt))
            /\ attempt' = attempt + 1
            /\ UNCHANGED <<outcome, returned>>
       ELSE
            /\ outcome' = Settle(r)
            /\ returned' = IF Settle(r) = "returned" THEN r.body ELSE NoValue
            /\ UNCHANGED <<sleeps, attempt>>
    /\ UNCHANGED max_retries

\* line 119: session.get raises (a timeout, a refused connection); nothing catches it
GetRaises ==
    /\ outcome = "pending"
    /\ attempt <= max_retries
    /\ outcome' = "RequestException"
    /\ UNCHANGED <<max_retries, attempt, responses, sleeps, returned>>

\* line 141: the loop ran out of attempts
Exhaust ==
    /\ outcome = "pending"
    /\ attempt > max_retries
    /\ outcome' = "RuntimeError"
    /\ UNCHANGED <<max_retries, attempt, responses, sleeps, returned>>

\* the call of request_json begins
BeginFetch(n) ==
    /\ max_retries' = n
    /\ attempt' = 1
    /\ responses' = <<>>
    /\ sleeps' = <<>>
    /\ outcome' = "pending"
    /\ returned' = NoValue

----------------------------------------------------------------------------
(* The state before anything ran *)

Idle ==
    /\ max_retries = DEFAULT_MAX_RETRIES
    /\ attempt = 1
    /\ responses = <<>>
    /\ sleeps = <<>>
    /\ outcome = "none"
    /\ returned = NoValue
    /\ pc = "idle"
    /\ runs = 0
    /\ snapshot = None
    /\ exit = "none"
    /\ posts = <<>>
    /\ eps = <<>>
    /\ trailer = <<>>
    /\ others = <<>>
    /\ history_file = NoFile
    /\ history_before = NoFile
    /\ appended = <<>>
    /\ by_post = <<>>
    /\ episode_plot = <<>>
    /\ non_episode_plot = <<>>

SeqsUpTo(S, n) == UNION {[1..k -> S] : k \in 0..n}

----------------------------------------------------------------------------
(* FetchSpec: one call of request_json against every sequence of responses *)

FetchInit ==
    /\ max_retries \in 0..MaxAttempts
    /\ attempt = 1
    /\ responses = <<>>
    /\ sleeps = <<>>
    /\ outcome = "pending"
    /\ returned = NoValue
    /\ pc = "fetch"
    /\ runs = 0
    /\ snapshot = None
    /\ exit = "none"
    /\ posts = <<>>
    /\ eps = <<>>
    /\ trailer = <<>>
    /\ others = <<>>
    /\ history_file = NoFile
    /\ history_before = NoFile
    /\ appended = <<>>
    /\ by_post = <<>>
    /\ episode_plot = <<>>
    /\ non_episode_plot = <<>>

FetchAttempt ==
    /\ \E r \in Responses : Attempt(r)
    /\ UNCHANGED <<selectVars, historyVars, plotVars, runVars>>

FetchGetRaises == GetRaises /\ UNCHANGED <<selectVars, historyVars, plotVars, runVars>>

FetchExhaust == Exhaust /\ UNCHANGED <<selectVars, historyVars, plotVars, runVars>>

FetchNext == FetchAttempt \/ FetchGetRaises \/ FetchExhaust

FetchSpec == FetchInit /\ [][FetchNext]_vars

\* the loop runs on: time.sleep returns and session.get returns or raises (timeout=30)
FetchFairSpec == FetchSpec /\ WF_vars(FetchNext)

----------------------------------------------------------------------------
(* main: one run of the program *)

\* line 21: OTHER_POSTS_N, from the environment or 5
OTHER_POSTS_N == 5

\* make_plots (lines 268-357) on the history file as it is when it is called
make_plots(file) ==
    IF ~file.exists THEN UNCHANGED plotVars
    ELSE /\ by_post' = BuildSeries(file)
         /\ episode_plot' = EpisodePlot(BuildSeries(file))
         /\ non_episode_plot' = NonEpisodePlot(BuildSeries(file))

\* lines 493-506: the three views of the posts
Select(ps, n) ==
    /\ posts' = ps
    /\ eps' = episode_posts(ps)
    /\ trailer' = pick_trailer(ps)
    /\ others' = pick_other_posts(ps, n)

\* main, lines 470-473: the run takes its snapshot time and calls request_json
StartRun ==
    /\ pc = "idle"
    /\ runs < MaxRuns
    /\ runs' = runs + 1
    /\ pc' = "fetch"
    /\ exit' = "none"
    /\ \E t \in 1..MaxTime : snapshot' = isoformat(t)
    /\ BeginFetch(DEFAULT_MAX_RETRIES)
    /\ history_before' = history_file
    /\ UNCHANGED <<selectVars, history_file, appended, plotVars>>

\* Abort that leaves the header behind when the run fails
Abort_WritingHeader ==
    /\ exit' = "failed"
    /\ pc' = "idle"
    /\ history_file' = ensure_history_header(history_file)
    /\ UNCHANGED <<runs, snapshot, selectVars, history_before, appended, plotVars>>

\* main, lines 536-539: the exception of the fetch leaves main
Abort ==
    /\ exit' = "failed"
    /\ pc' = "idle"
    /\ UNCHANGED <<runs, snapshot, selectVars, historyVars, plotVars>>

\* main, lines 473-534, once request_json has returned body
Complete(body) ==
    /\ Select(PostsOf(body.children), OTHER_POSTS_N)
    /\ history_file' = append_history(history_file, snapshot, PostsOf(body.children))
    /\ appended' = Append(appended, HistoryRows(snapshot, PostsOf(body.children)))
    /\ make_plots(history_file')
    /\ exit' = "ok"
    /\ pc' = "idle"
    /\ UNCHANGED <<runs, snapshot, history_before>>

\* the run goes through one iteration of the loop of request_json, and on to its end
\* when that iteration ends the call
RunAttempt ==
    /\ pc = "fetch"
    /\ \E r \in RunResponses :
        /\ Attempt(r)
        /\ IF outcome' = "pending"
           THEN UNCHANGED <<runVars, selectVars, historyVars, plotVars>>
           ELSE IF outcome' = "returned" THEN Complete(returned')
           ELSE Abort

RunGetRaises == pc = "fetch" /\ GetRaises /\ Abort

RunExhaust == pc = "fetch" /\ Exhaust /\ Abort

RunNext == StartRun \/ RunAttempt \/ RunGetRaises \/ RunExhaust

\* runs do not overlap: a run starts when the one before it has ended
RunSpec == Idle /\ [][RunNext]_vars

----------------------------------------------------------------------------
(* AggSpec: make_plots on every history file *)

TimeTexts == {isoformat(t) : t \in 1..MaxTime} \cup {<<"n","/","a">>}

AggRow(time, name, flag) ==
    [snapshot_utc |-> time, post_id |-> "abc", post_name |-> name,
     episode_code |-> IF flag = 1 THEN <<"1","x","0","2">> ELSE <<>>,
     is_episode |-> str(flag), is_trailer |-> <<"0">>,
     title |-> TITLE_NEWS, permalink |-> "", num_comments |-> <<"7">>]

AggRows == {AggRow(time, name, flag) :
                time \in TimeTexts, name \in {"t3_abc", "t3_def"}, flag \in {0, 1}}

AggFiles ==
    {NoFile} \cup
    {[exists |-> TRUE, lines |-> <<HISTORY_HEADER>> \o rows] : rows \in SeqsUpTo(AggRows, MaxRows)}

AggInit ==
    /\ max_retries = DEFAULT_MAX_RETRIES
    /\ attempt = 1
    /\ responses = <<>>
    /\ sleeps = <<>>
    /\ outcome = "none"
    /\ returned = NoValue
    /\ pc = "plot"
    /\ runs = 0
    /\ snapshot = None
    /\ exit = "none"
    /\ posts = <<>>
    /\ eps = <<>>
    /\ trailer = <<>>
    /\ others = <<>>
    /\ history_file \in AggFiles
    /\ history_before = history_file
    /\ appended = <<>>
    /\ by_post = <<>>
    /\ episode_plot = <<>>
    /\ non_episode_plot = <<>>

MakePlots ==
    /\ pc = "plot"
    /\ pc' = "idle"
    /\ make_plots(history_file)
    /\ UNCHANGED <<fetchVars, selectVars, historyVars, runs, snapshot, exit>>

AggNext == MakePlots

AggSpec == AggInit /\ [][AggNext]_vars

----------------------------------------------------------------------------
(* SelSpec: the selectors on every list of posts *)

SelChildren ==
    {Child("abc", "", title, 1, nc, 0) :
        title \in {TITLE_EPISODE, TITLE_TRAILER, TITLE_BOTH}, nc \in {1, 2}}
    \cup {Child("abc", "", TITLE_NEWS, 1, nc, sc) : nc \in {1, 2}, sc \in {0, 1}}

SelInit ==
    /\ max_retries = DEFAULT_MAX_RETRIES
    /\ attempt = 1
    /\ responses = <<>>
    /\ sleeps = <<>>
    /\ outcome = "returned"
    /\ returned \in {Json(children) : children \in SeqsUpTo(SelChildren, MaxPosts)}
    /\ pc = "select"
    /\ runs = 0
    /\ snapshot = None
    /\ exit = "none"
    /\ posts = <<>>
    /\ eps = <<>>
    /\ trailer = <<>>
    /\ others = <<>>
    /\ history_file = NoFile
    /\ history_before = NoFile
    /\ appended = <<>>
    /\ by_post = <<>>
    /\ episode_plot = <<>>
    /\ non_episode_plot = <<>>

SelectPosts ==
    /\ pc = "select"
    /\ pc' = "idle"
    /\ \E n \in 0..MaxOtherN : Select(PostsOf(returned.children), n)
    /\ UNCHANGED <<fetchVars, historyVars, plotVars, runs, snapshot, exit>>

SelNext == SelectPosts

SelSpec == SelInit /\ [][SelNext]_vars

----------------------------------------------------------------------------
(* EpSpec: the episode codes of two titles and their order in episode_posts *)

DigitTexts ==
    {<<DigitChars[a + 1]>> : a \in 0..MaxDigit}
    \cup {<<DigitChars[a + 1], DigitChars[b + 1]>> : a \in 0..MaxDigit, b \in 0..MaxDigit}

EpTitles ==
    {g1 \o <<"x">> \o g2 : g1 \in DigitTexts, g2 \in DigitTexts}
    \cup {<<"S">> \o g \o <<" ","e">> \o g : g \in DigitTexts}
    \cup {TITLE_NEWS, <<"1","2","3","x","4">>}

EpInit ==
    /\ max_retries = DEFAULT_MAX_RETRIES
    /\ attempt = 1
    /\ responses = <<>>
    /\ sleeps = <<>>
    /\ outcome = "returned"
    /\ returned \in {Json(<<Child("abc", "", t1, 1, 0, 0), Child("def", "", t2, 1, 0, 0)>>) :
                        t1 \in EpTitles, t2 \in EpTitles}
    /\ pc = "select"
    /\ runs = 0
    /\ snapshot = None
    /\ exit = "none"
    /\ posts = <<>>
    /\ eps = <<>>
    /\ trailer = <<>>
    /\ others = <<>>
    /\ history_file = NoFile
    /\ history_before = NoFile
    /\ appended = <<>>
    /\ by_post = <<>>
    /\ episode_plot = <<>>
    /\ non_episode_plot = <<>>

EpNext == SelectPosts

EpSpec == EpInit /\ [][EpNext]_vars

----------------------------------------------------------------------------
(* TrailerSpec: pick_trailer on lists of posts that differ in their ids, so that
   two posts with the same title, comment count and score are told apart *)

\* the id of the post at each place of a listing
POST_IDS == <<"p1", "p2", "p3", "p4", "p5", "p6">>

\* title, comment count and score of a child: trailers of every comment count and
\* score, and an episode trailer and a post that is no trailer with the most comments
TrailerFields ==
    [title : {TITLE_TRAILER}, num_comments : 0..2, score : {0, 1}]
    \cup [title : {TITLE_BOTH, TITLE_NEWS}, num_comments : {2}, score : {0}]

TrailerListings ==
    UNION {{[i \in 1..k |-> Child(POST_IDS[i], "", f[i].title, 1, f[i].num_comments, f[i].score)] :
                f \in [1..k -> TrailerFields]} : k \in 0..Min(MaxPosts, Len(POST_IDS))}

TrailerInit ==
    /\ max_retries = DEFAULT_MAX_RETRIES
    /\ attempt = 1
    /\ responses = <<>>
    /\ sleeps = <<>>
    /\ outcome = "returned"
    /\ returned \in {Json(children) : children \in TrailerListings}
    /\ pc = "select"
    /\ runs = 0
    /\ snapshot = None
    /\ exit = "none"
    /\ posts = <<>>
    /\ eps = <<>>
    /\ trailer = <<>>
    /\ others = <<>>
    /\ history_file = NoFile
    /\ history_before = NoFile
    /\ appended = <<>>
    /\ by_post = <<>>
    /\ episode_plot = <<>>
    /\ non_episode_plot = <<>>

\* main, lines 493-506, on the posts of the body
SelectInMain ==
    /\ pc = "select"
    /\ pc' = "idle"
    /\ Select(PostsOf(returned.children), OTHER_POSTS_N)
    /\ UNCHANGED <<fetchVars, historyVars, plotVars, runs, snapshot, exit>>

TrailerNext == SelectInMain

TrailerSpec == TrailerInit /\ [][TrailerNext]_vars

----------------------------------------------------------------------------
(* Properties of request_json *)

\* the GETs this call has issued: those that returned a response and the one that raised
Gets == Len(responses) + (IF outcome = "RequestException" THEN 1 ELSE 0)

Ended == outcome # "pending"

Retried(r) == r.status_code = 429 \/ r.status_code \in 500..599

\* a Retry-After header that is present and numeric: a non-empty string of digits
NumericRetryAfter(r) ==
    /\ r.retry_after # None
    /\ r.retry_after # <<>>
    /\ \A i \in 1..Len(r.retry_after) : r.retry_after[i] \in Range(DigitChars)

\* a 200 whose content type names JSON and whose body is JSON text
JsonContentType(r) == r.content_type \in {JSON_CT, JSON_CT2}
Good200(r) == r.status_code = 200 /\ JsonContentType(r) /\ r.body.json

\* the first k responses are 429 and response k+1 is a 200 with a JSON body
RateLimitedThenGood(k) ==
    /\ Len(responses) >= k + 1
    /\ \A i \in 1..k : responses[i].status_code = 429
    /\ Good200(responses[k + 1])

\* C1: with max_retries = N and k < N, when the first k responses are 429 and
\* response k+1 is a 200 with a JSON content type (and a body that is JSON), the
\* call returns that body after exactly k+1 GETs and exactly k sleeps, and each
\* sleep lasts the Retry-After value of its 429 when that header is present and
\* numeric.  So after k < N responses that are all 429 the call has slept k times
\* and is going on to its next GET (or that GET has raised), and with the 200 it returns.
C1_RateLimitedThenSuccess ==
    \A k \in 0..(max_retries - 1) :
        /\ (Len(responses) >= k /\ \A i \in 1..k : responses[i].status_code = 429) =>
                /\ Len(sleeps) >= k
                /\ Len(responses) = k => outcome \in {"pending", "RequestException"}
                /\ \A i \in 1..k :
                      NumericRetryAfter(responses[i]) => sleeps[i] = int(responses[i].retry_after)
        /\ RateLimitedThenGood(k) =>
                /\ outcome = "returned"
                /\ returned = responses[k + 1].body
                /\ Gets = k + 1
                /\ Len(sleeps) = k

\* no response of the call carries a Retry-After on which int() raises
DecimalRetryAfters == \A i \in 1..Len(responses) : ~RetryAfterRaises(responses[i])

\* what C1 says holds of the calls whose 429s carry no such header
RateLimitedThenSuccess_DecimalHeaders == DecimalRetryAfters => C1_RateLimitedThenSuccess

\* a status that is neither 2xx, 429 nor 5xx
OtherStatus(r) ==
    /\ ~(r.status_code \in 200..299)
    /\ r.status_code # 429
    /\ ~(r.status_code \in 500..599)

\* C2: a response whose status is neither 2xx, 429 nor 5xx makes the call fail at
\* once with an HTTP error: it is the last GET, no sleep follows it and no body
\* is returned.
C2_OtherStatusFailsWithHTTPError ==
    \A i \in 1..Len(responses) :
        OtherStatus(responses[i]) =>
            /\ i = Len(responses)
            /\ outcome = "HTTPError"
            /\ Len(sleeps) = i - 1
            /\ returned = NoValue

\* C3: a 200 whose declared content type does not indicate JSON makes the call fail
\* with the content-type error on that attempt: it is the last GET, no sleep
\* follows it and no body is returned, whatever attempts remain.
C3_NonJson200Fails ==
    \A i \in 1..Len(responses) :
        (responses[i].status_code = 200 /\ ~JsonContentType(responses[i])) =>
            /\ i = Len(responses)
            /\ Gets = i
            /\ outcome = "ValueError: Expected JSON"
            /\ Len(sleeps) = i - 1
            /\ returned = NoValue

\* a 200 with text/html on the second of five attempts, after one 429
C3_Witness ==
    /\ max_retries = 5
    /\ Len(responses) = 2
    /\ responses[1].status_code = 429
    /\ responses[2].status_code = 200 /\ responses[2].content_type = HTML_CT
    /\ outcome = "ValueError: Expected JSON"

NumRetried == Cardinality({i \in 1..Len(responses) : Retried(responses[i])})

\* what holds of a call of request_json at every moment
C4_Bounded ==
    /\ Gets <= max_retries
    /\ Len(sleeps) = NumRetried
    /\ attempt = NumRetried + 1
    /\ outcome = "RuntimeError" =>
            /\ Gets = max_retries
            /\ \A i \in 1..Len(responses) : Retried(responses[i])
    /\ (Len(responses) = max_retries /\ \A i \in 1..Len(responses) : Retried(responses[i])) =>
            outcome \in {"pending", "RuntimeError"}

\* what C4 says of the attempts holds of the calls whose 429s carry no Retry-After
\* on which int() raises
Bounded_DecimalHeaders == DecimalRetryAfters => C4_Bounded

\* C4: every 429 or 5xx uses up exactly one attempt, so the call issues at most
\* max_retries GETs and always ends; it ends in the retry-exhausted failure when
\* all max_retries responses are 429 or 5xx, and never after fewer GETs.
C4_AttemptsBoundedAndTerminates == [](C4_Bounded) /\ <>(Ended)

----------------------------------------------------------------------------
(* Properties of a run and of the history file *)

\* the fetch of the run ended in an HTTP error, a content-type mismatch or the
\* exhaustion of the retries
FetchFailed == outcome \in {"HTTPError", "ValueError: Expected JSON", "RuntimeError"}

\* C5: a run whose fetch ends in a fatal error aborts before append_history: the
\* history file after the run is the file before the run (no row and no header
\* written), and the run ends as failed; nothing is written while the fetch goes on.
C5_FailedFetchWritesNothing ==
    /\ pc = "fetch" => history_file = history_before
    /\ (pc = "idle" /\ runs > 0 /\ FetchFailed) =>
            /\ history_file = history_before
            /\ exit = "failed"

\* a run that fails on an HTTP error after a run that wrote the header and two rows
C5_Witness ==
    /\ pc = "idle"
    /\ runs = 2
    /\ outcome = "HTTPError"
    /\ exit = "failed"
    /\ history_file.exists
    /\ Len(history_file.lines) = 3

RECURSIVE Flatten(_)
Flatten(batches) == IF batches = <<>> THEN <<>> ELSE Head(batches) \o Flatten(Tail(batches))

\* the last n elements of s
LastN(s, n) == SubSeq(s, Len(s) - n + 1, Len(s))

\* the history file is the header and then the rows appended by the runs, in run
\* order; a run that ended well has written one row per post, in the order of posts
C6_HeaderThenRows ==
    /\ appended = <<>> => history_file = NoFile
    /\ appended # <<>> =>
            /\ history_file.exists
            /\ history_file.lines = <<HISTORY_HEADER>> \o Flatten(appended)
    /\ (pc = "idle" /\ exit = "ok") =>
            /\ Len(history_file.lines) >= 1 + Len(posts)
            /\ Len(history_file.lines) = Len(history_before.lines) + Len(posts)
                                         + (IF history_before.exists THEN 0 ELSE 1)
            /\ \A i \in 1..Len(posts) :
                LET row == LastN(history_file.lines, Len(posts))[i]
                IN  /\ row.post_id = posts[i].id
                    /\ row.post_name = posts[i].name
                    /\ row.snapshot_utc = snapshot
                    /\ row.num_comments = str(posts[i].num_comments)

\* a step leaves every line that was in the file in its place
C6_LinesKept ==
    /\ history_file.exists => history_file'.exists
    /\ Len(history_file'.lines) >= Len(history_file.lines)
    /\ SubSeq(history_file'.lines, 1, Len(history_file.lines)) = history_file.lines

\* C6: after any sequence of runs that do not overlap, the history file is the
\* header, written once when the file is created, followed by the rows of the runs
\* that ended well, in run order: an append adds one row per post of its run, in
\* input order, at the end, and leaves the rows before it as they were.
C6_AppendOnly == [](C6_HeaderThenRows) /\ [][C6_LinesKept]_vars

\* two runs that each wrote rows
C6_Witness ==
    /\ pc = "idle"
    /\ exit = "ok"
    /\ Len(appended) = 2
    /\ Len(appended[1]) = 2
    /\ Len(appended[2]) = 1
    /\ Len(history_file.lines) = 4

----------------------------------------------------------------------------
(* Properties of make_plots *)

Plotted == pc = "idle" /\ history_file.exists

FileRows == ReadRows(history_file)

\* a snapshot time that is the ISO text of an instant
ParsableTime(text) == \E t \in 0..(MaxTime + 1) : text = isoformat(t)
InstantOf(text) == CHOOSE t \in 0..(MaxTime + 1) : text = isoformat(t)

\* the rows of the file that belong in the series of name, by their place in the file
RowsOfPost(name) ==
    {i \in 1..Len(FileRows) :
        FileRows[i].post_name = name /\ ParsableTime(FileRows[i].snapshot_utc)}

SeriesOf(name) == {k \in 1..Len(by_post) : by_post[k].post_name = name}

\* how often row occurs among the rows of a series / among the rows of name in the file
CountInSeries(series, row) == Cardinality({i \in 1..Len(series) : series[i][3] = row})
CountInFile(name, row) == Cardinality({i \in RowsOfPost(name) : FileRows[i] = row})

\* C7: for every history file, whatever the order of its rows, each series holds
\* exactly the rows of its post_name that have a parsable snapshot time, in ascending
\* order of snapshot time.
C7_SeriesExactAndSorted ==
    Plotted =>
        /\ \A i \in 1..Len(FileRows) :
              ParsableTime(FileRows[i].snapshot_utc) =>
                    Cardinality(SeriesOf(FileRows[i].post_name)) = 1
        /\ \A k \in 1..Len(by_post) :
              LET name == by_post[k].post_name
                  series == by_post[k].series
              IN  /\ SeriesOf(name) = {k}
                  /\ Len(series) = Cardinality(RowsOfPost(name))
                  /\ Len(series) > 0
                  /\ \A i \in 1..Len(series) :
                        /\ series[i][3].post_name = name
                        /\ ParsableTime(series[i][3].snapshot_utc)
                        /\ series[i][1] = InstantOf(series[i][3].snapshot_utc)
                        /\ CountInSeries(series, series[i][3]) = CountInFile(name, series[i][3])
                  /\ \A i \in 1..Len(series) : \A j \in i..Len(series) :
                        series[i][1] <= series[j][1]

\* the rows of one post written as T2, T1, T3
C7_Witness ==
    /\ Plotted
    /\ Len(FileRows) = 3
    /\ \A i \in 1..3 : FileRows[i].post_name = "t3_abc"
    /\ FileRows[1].snapshot_utc = isoformat(2)
    /\ FileRows[2].snapshot_utc = isoformat(1)
    /\ FileRows[3].snapshot_utc = isoformat(3)
    /\ Len(by_post) = 1
    /\ [i \in 1..3 |-> by_post[1].series[i][1]] = <<1, 2, 3>>

InEpisodePlot(name) == \E i \in 1..Len(episode_plot) : episode_plot[i].post_name = name
InNonEpisodePlot(name) ==
    \E i \in 1..Len(non_episode_plot) : non_episode_plot[i].post_name = name

\* the first row of name in file order, among its rows with a parsable time
FirstInFile(name) ==
    FileRows[CHOOSE i \in RowsOfPost(name) : \A j \in RowsOfPost(name) : i <= j]

\* the row of name with the earliest snapshot time, the first in file order of these
EarliestInTime(name) ==
    FileRows[CHOOSE i \in RowsOfPost(name) : \A j \in RowsOfPost(name) :
                LET ti == InstantOf(FileRows[i].snapshot_utc)
                    tj == InstantOf(FileRows[j].snapshot_utc)
                IN  ti < tj \/ (ti = tj /\ i <= j)]

PostNamesInFile == {FileRows[i].post_name : i \in 1..Len(FileRows)}

\* C10 as stated: a series is an episode series exactly when the first row of its
\* post_name in file order (with a parsable time) has is_episode = 1.
C10_ClassifiedByFirstInFile ==
    Plotted =>
        \A name \in PostNamesInFile :
            RowsOfPost(name) # {} =>
                /\ InEpisodePlot(name) <=> (FirstInFile(name).is_episode = <<"1">>)
                /\ InNonEpisodePlot(name) <=> ~InEpisodePlot(name)

\* C10 amended: a series is an episode series exactly when the row of its post_name
\* with the earliest snapshot time (among rows of equal time, the first in file
\* order) has is_episode = 1; the other rows of the series are not looked at.
C10_ClassifiedByEarliestInTime ==
    Plotted =>
        \A name \in PostNamesInFile :
            /\ RowsOfPost(name) # {} =>
                /\ InEpisodePlot(name) <=> (EarliestInTime(name).is_episode = <<"1">>)
                /\ InNonEpisodePlot(name) <=> ~InEpisodePlot(name)
            /\ RowsOfPost(name) = {} => ~InEpisodePlot(name) /\ ~InNonEpisodePlot(name)

\* a post whose rows are out of time order and differ in is_episode: the row written
\* first says episode, the row with the earliest time says not
C10_Witness ==
    /\ Plotted
    /\ Len(FileRows) = 2
    /\ FileRows[1] = AggRow(isoformat(2), "t3_abc", 1)
    /\ FileRows[2] = AggRow(isoformat(1), "t3_abc", 0)
    /\ InNonEpisodePlot("t3_abc")
    /\ ~InEpisodePlot("t3_abc")

----------------------------------------------------------------------------
(* Properties of the selectors and of the episode codes *)

Selected == pc = "idle"

\* C8: pick_other_posts never returns a post that has an episode code or the trailer
\* flag, for every list and every n >= 0, also when such a post has the most
\* comments; so it shares no post with episode_posts and never holds pick_trailer's.
C8_OthersExcludeEpisodesAndTrailers ==
    Selected =>
        \A i \in 1..Len(others) :
            /\ others[i].episode_code = None
            /\ ~others[i].is_trailer
            /\ \A j \in 1..Len(eps) : eps[j] # others[i]
            /\ \A j \in 1..Len(trailer) : trailer[j] # others[i]

\* an episode post and a trailer each have more comments than the post picked
C8_Witness ==
    /\ Selected
    /\ Len(posts) = 3
    /\ posts[1].episode_code # None /\ posts[1].num_comments = 2
    /\ posts[2].is_trailer /\ posts[2].episode_code = None /\ posts[2].num_comments = 2
    /\ posts[3].num_comments = 1
    /\ others = <<posts[3]>>
    /\ trailer = <<posts[2]>>

\* the season and episode numbers that the title of a post with a code names
GroupsOf(title) == IF SearchX(title) # None THEN SearchX(title) ELSE SearchSE(title)
SeasonOf(p) == int(GroupsOf(p.title)[1])
EpisodeOf(p) == int(GroupsOf(p.title)[2])

TwoDigits(n) == <<DigitChars[(n \div 10) + 1], DigitChars[(n % 10) + 1]>>

InRange(p) == SeasonOf(p) \in 1..99 /\ EpisodeOf(p) \in 0..99

NumericallyBefore(p, q) ==
    \/ SeasonOf(p) < SeasonOf(q)
    \/ (SeasonOf(p) = SeasonOf(q) /\ EpisodeOf(p) < EpisodeOf(q))

\* C9: an episode code is the season number, "x" and the episode number padded to
\* two digits, and for two codes with season in 1..99 and episode in 0..99 the
\* order of the strings, by which episode_posts sorts, is the order of the numbers.
C9_CodeOrderIsNumericOrder ==
    Selected =>
        /\ \A i \in 1..Len(eps) :
              eps[i].episode_code = str(SeasonOf(eps[i])) \o <<"x">> \o TwoDigits(EpisodeOf(eps[i]))
        /\ \A i \in 1..Len(eps) : \A j \in 1..Len(eps) :
              (InRange(eps[i]) /\ InRange(eps[j])) =>
                    /\ StrLess(eps[i].episode_code, eps[j].episode_code)
                            <=> NumericallyBefore(eps[i], eps[j])
                    /\ i < j => ~NumericallyBefore(eps[j], eps[i])

\* the rendering alone, which the code does as the claim says
C9_Rendering ==
    Selected =>
        \A i \in 1..Len(eps) :
            eps[i].episode_code = str(SeasonOf(eps[i])) \o <<"x">> \o TwoDigits(EpisodeOf(eps[i]))

\* the places of the input list that hold a post with the trailer flag
TrailerPlaces == {i \in 1..Len(posts) : posts[i].is_trailer}

\* C11: pick_trailer returns none exactly when no post has the trailer flag;
\* otherwise it returns one post, a trailer whose num_comments is the maximum over
\* the trailers, and of the trailers with that maximum the first of the input list.
C11_MostCommentedTrailerFirstOfTies ==
    Selected =>
        /\ trailer = <<>> <=> TrailerPlaces = {}
        /\ TrailerPlaces # {} =>
                /\ Len(trailer) = 1
                /\ \E i \in TrailerPlaces :
                      /\ trailer[1] = posts[i]
                      /\ \A j \in TrailerPlaces : posts[j].num_comments <= posts[i].num_comments
                      /\ \A j \in TrailerPlaces :
                            j < i => posts[j].num_comments < posts[i].num_comments

\* a trailer with fewer comments comes first, then two trailers that share the most
\* comments, the later one with the higher score; the earlier of the two is returned
C11_Witness ==
    /\ Selected
    /\ Len(posts) = 3
    /\ \A i \in 1..3 : posts[i].is_trailer
    /\ posts[1].num_comments = 1
    /\ posts[2].num_comments = 2 /\ posts[2].score = 0
    /\ posts[3].num_comments = 2 /\ posts[3].score = 1
    /\ posts[2] # posts[3]
    /\ trailer = <<posts[2]>>

====
